---- MODULE Spec2Model ----
(***************************************************************************)
(* A model of the comtensor text validator                                 *)
(* (src/src/comtensor/validator/validator.py).                             *)
(*                                                                         *)
(* Two specifications share the definitions below.                         *)
(*   Spec        the validation loop: validation_loop driving              *)
(*               validate_step (resolve, prompt, poll through the thread   *)
(*               pool, collect, score, set_weights).                       *)
(*   SpecWeights set_weights called directly on a score map and a ceiling  *)
(*               drawn from bounded sets.                                  *)
(*                                                                         *)
(* Representation.  A Python dict is a sequence of <<key, value>> pairs    *)
(* with distinct keys, in insertion order.  A float score is an exact      *)
(* integer number of score units (one unit is 1/ScoreDen); the quotient    *)
(* score * 1000 / total that set_weights computes does not depend on the   *)
(* unit.  An exception is the name of its class in exc.                    *)
(***************************************************************************)
EXTENDS Integers, Sequences, FiniteSets, TLC

VARIABLES
    loop_pc,              \* position of validation_loop
    elapsed,              \* validation_loop: elapsed (0 once it is dead)
    sleep_time,           \* validation_loop: the sleep in progress
    pc,                   \* position of validate_step / set_weights
    exc,                  \* the exception raised, "none" when none
    max_allowed_weights,  \* settings.max_allowed_weights
    modules_adresses,     \* validate_step: uid -> raw address
    modules_keys,         \* validate_step: uid -> ss58 key
    modules_info,         \* validate_step: uid -> (connection, key)
    miner_prompt,         \* validate_step: the task text
    next_call,            \* thread pool: index of the next queued work item
    running,              \* thread pool: indices of the calls in flight
    futures,              \* thread pool: index -> result of the call
    completed,            \* thread pool: indices in completion order
    miner_answers,        \* validate_step: the materialised executor.map
    miner_res,            \* validate_step: answers of the surviving miners
    miner_time,           \* validate_step: their response times
    miner_uids,           \* validate_step: their uids
    score_dict,           \* uid -> score
    cut_scores,           \* set_weights: score_dict after the cut
    weighted_scores,      \* set_weights: uid -> weight, zeros filtered
    votes                 \* client.vote calls of this round

loopVars    == <<loop_pc, elapsed, sleep_time>>
ledgerVars  == <<modules_adresses, modules_keys>>
pollVars    == <<modules_info, miner_prompt, next_call, running, futures,
                 completed, miner_answers>>
collectVars == <<miner_res, miner_time, miner_uids>>
weightVars  == <<cut_scores, weighted_scores, votes>>
vars == <<loop_pc, elapsed, sleep_time, pc, exc, max_allowed_weights,
          modules_adresses, modules_keys, modules_info, miner_prompt,
          next_call, running, futures, completed, miner_answers,
          miner_res, miner_time, miner_uids,
          score_dict, cut_scores, weighted_scores, votes>>

---------------------------------------------------------------------------
\* Bounds of the model.

\* Module ids of a round's roster are 0..MaxPeers.
MaxPeers == 2
\* Entries of a score map handed to set_weights directly, and the largest
\* ceiling it is called with.
MaxEntries == 4
\* Scores handed to set_weights directly are -MaxNeg..MaxScore units,
\* Dominant or nan.
MaxScore == 2
MaxNeg == 1
\* settings.max_allowed_weights is 0..MaxK.
MaxK == 2

---------------------------------------------------------------------------
\* Python dicts as sequences of <<key, value>> pairs.

Min(a, b) == IF a < b THEN a ELSE b
Max(a, b) == IF a > b THEN a ELSE b
Abs(a) == IF a < 0 THEN -a ELSE a

Keys(d) == [i \in 1..Len(d) |-> d[i][1]]
Values(d) == [i \in 1..Len(d) |-> d[i][2]]
KeySet(d) == {d[i][1] : i \in 1..Len(d)}
Range(s) == {s[i] : i \in 1..Len(s)}
Lookup(d, k) == (CHOOSE i \in 1..Len(d) : d[i][1] = k)

RECURSIVE SumSeq(_)
SumSeq(s) == IF s = <<>> THEN 0 ELSE Head(s) + SumSeq(Tail(s))

\* The float nan: an integer no score reaches.  x + y and sum(s) of floats.
NaN == -(2 ^ 24)
IsNaN(x) == x = NaN
HasNaN(d) == \E i \in 1..Len(d) : IsNaN(d[i][2])
FAdd(x, y) == IF IsNaN(x) \/ IsNaN(y) THEN NaN ELSE x + y
RECURSIVE FSum(_)
FSum(s) == IF s = <<>> THEN 0 ELSE FAdd(Head(s), FSum(Tail(s)))

\* int(x / y) of Python for integers x, y: the quotient truncated toward 0.
TruncDiv(x, y) ==
    IF (x >= 0) = (y > 0) THEN Abs(x) \div Abs(y) ELSE -(Abs(x) \div Abs(y))

---------------------------------------------------------------------------
\* cut_to_max_allowed_weights (lines 95-114).

\* x < y of floats: false when either is nan.
FLess(x, y) == ~IsNaN(x) /\ ~IsNaN(y) /\ x < y

Reverse(s) == [i \in 1..Len(s) |-> s[Len(s) + 1 - i]]

\* sorted() is CPython's list.sort; on fewer than 64 items it is a binary
\* insertion sort that starts from the run the list begins with, and its
\* only comparison is key < key.  With scores that are numbers this is the
\* stable sort; a nan, which is less than nothing, leaves the scores around
\* it where the comparisons happen to put them.

\* count_run: the last item of the run that a begins with, ascending (no
\* item less than the one before) or strictly descending, given that the
\* run reaches item i.
RECURSIVE RunEnd(_, _, _)
RunEnd(a, i, descending) ==
    IF i < Len(a) /\ (FLess(a[i + 1][2], a[i][2]) = descending)
    THEN RunEnd(a, i + 1, descending)
    ELSE i

\* binarysort's search for the place of pivot among the first items of a:
\* the number of items that stay before it.
RECURSIVE InsertAt(_, _, _, _)
InsertAt(a, pivot, l, r) ==
    IF l >= r THEN l
    ELSE LET p == l + ((r - l) \div 2)
         IN  IF FLess(pivot[2], a[p + 1][2])
             THEN InsertAt(a, pivot, l, p)
             ELSE InsertAt(a, pivot, p + 1, r)

\* binarysort: the first start items of a are sorted, the others are
\* inserted one by one.
RECURSIVE binarysort(_, _)
binarysort(a, start) ==
    IF start >= Len(a) THEN a
    ELSE LET pivot == a[start + 1]
             l == InsertAt(a, pivot, 0, start)
         IN  binarysort(SubSeq(a, 1, l) \o <<pivot>> \o SubSeq(a, l + 1, start)
                          \o SubSeq(a, start + 2, Len(a)),
                        start + 1)

\* list.sort(), ascending by score.
list_sort(a) ==
    IF Len(a) < 2 THEN a
    ELSE LET descending == FLess(a[2][2], a[1][2])
             n == RunEnd(a, 2, descending)
         IN  binarysort(IF descending
                        THEN Reverse(SubSeq(a, 1, n)) \o SubSeq(a, n + 1, Len(a))
                        ELSE a,
                        n)

\* sorted(score_dict.items(), key=lambda x: x[1], reverse=True): the list
\* is reversed, sorted and reversed again.
sorted_scores(d) == Reverse(list_sort(Reverse(d)))

\* A cut that keeps one entry too many.
cut_off_by_one(d, ceiling) ==
    SubSeq(sorted_scores(d), 1, Min(ceiling + 1, Len(d)))

\* A cut whose slice starts one entry late.
cut_from_second(d, ceiling) ==
    SubSeq(sorted_scores(d), 2, Min(ceiling, Len(d)))

\* sorted_scores[:max_allowed_weights], for a ceiling >= 0.
cut_to_max_allowed_weights(d, ceiling) ==
    SubSeq(sorted_scores(d), 1, Min(ceiling, Len(d)))

---------------------------------------------------------------------------
\* set_weights (lines 47-92).

\* The budget the scores are scaled to (line 80).
WeightBudget == 1000

\* A weight rounded up instead of truncated.
weight_rounded_up(score, scores) ==
    TruncDiv(score * WeightBudget + scores - 1, scores)

\* weight = int(score * 1000 / scores), line 80.
weight_of(score, scores) == TruncDiv(score * WeightBudget, scores)

\* Line 80 is computed in floats: score * 1000 is rounded and so is its
\* quotient by scores.  A quotient that is a whole number k in exact
\* arithmetic may come out just under k in magnitude, and int() then gives
\* one less: int(s * 1000 / s) is 999 for s = 0.13445080768798998.  These
\* are the kept scores it may happen to.
WholeQuotients(kept) ==
    LET scores == SumSeq(Values(kept))
    IN  {kept[i][2] : i \in {k \in 1..Len(kept) :
           /\ kept[k][2] # 0
           /\ (Abs(kept[k][2]) * WeightBudget) % Abs(scores) = 0}}

\* Two scores of which one is the other times a power of two (or its
\* negative) go through the same roundings: both quotients come out whole
\* or both come out short.
SameRounding(a, b) ==
    \E p \in {2 ^ k : k \in 0..10} : Abs(a) * p = Abs(b) \/ Abs(b) * p = Abs(a)

\* The sets of kept scores whose quotient may come out short together.
ShortQuotients(kept) ==
    {short \in SUBSET WholeQuotients(kept) :
       \A a \in short : \A b \in WholeQuotients(kept) :
          SameRounding(a, b) => b \in short}

\* int() of the float quotient of line 80; short holds the scores whose
\* quotient came out just under a whole number.  Equal scores go through
\* the same float operations and get the same weight.
float_weight_of(score, scores, short) ==
    LET exact == weight_of(score, scores)
    IN  IF score \in short
        THEN (IF exact > 0 THEN exact - 1 ELSE exact + 1)
        ELSE exact

\* The weights handed to the uids in the opposite order.
weights_misassigned(kept, short) ==
    LET scores == SumSeq(Values(kept))
    IN  [i \in 1..Len(kept) |->
           <<kept[i][1],
             float_weight_of(kept[Len(kept) + 1 - i][2], scores, short)>>]

\* The loop of lines 78-83: uid -> weight, in the order of the kept scores.
weights_of(kept, short) ==
    LET scores == SumSeq(Values(kept))
    IN  [i \in 1..Len(kept) |->
           <<kept[i][1], float_weight_of(kept[i][2], scores, short)>>]

\* No weight filtered out.
filter_nothing(w) == w

\* {k: v for k, v in weighted_scores.items() if v != 0}, line 87.
filter_zero(w) == SelectSeq(w, LAMBDA kv : kv[2] # 0)

\* Line 80 divides by the sum of the kept scores once per kept entry.
DivisionByZero(kept) == kept # <<>> /\ SumSeq(Values(kept)) = 0

\* Lines 68-87 run on a weight map w as the score map.  The weights are
\* ints: their sum is exact, and a quotient of ints that is a whole number
\* is computed exactly.
reweighted(w, ceiling) ==
    filter_zero(weights_of(cut_to_max_allowed_weights(w, ceiling), {}))

\* The whole of set_weights.  int() of line 80 raises ValueError on nan;
\* the ledger's vote may fail.
SetWeights ==
    /\ pc = "set_weights"
    /\ LET kept == cut_to_max_allowed_weights(score_dict, max_allowed_weights)
       IN
         /\ cut_scores' = kept
         /\ IF HasNaN(kept) \/ DivisionByZero(kept)
            THEN /\ weighted_scores' = <<>>
                 /\ votes' = votes
                 /\ pc' = "raised"
                 /\ exc' = IF HasNaN(kept) THEN "ValueError"
                                           ELSE "ZeroDivisionError"
            ELSE \E short \in ShortQuotients(kept) :
                   LET w == filter_zero(weights_of(kept, short))
                   IN  /\ weighted_scores' = w
                       /\ votes' = Append(votes,
                                     [uids |-> Keys(w), weights |-> Values(w)])
                       /\ \E ok \in BOOLEAN :
                            IF ok THEN pc' = "done" /\ exc' = exc
                            ELSE pc' = "raised" /\ exc' = "LedgerError"
    /\ UNCHANGED <<loopVars, ledgerVars, pollVars, collectVars,
                   max_allowed_weights, score_dict>>

---------------------------------------------------------------------------
\* Raw addresses and get_ip_port (lines 44, 117-161).  A string is the
\* sequence of its characters.

Digits == {"0", "1", "2", "3", "4", "5", "6", "7", "8", "9"}

\* The number of consecutive digits of s from position p on.
RECURSIVE DigitRun(_, _)
DigitRun(s, p) ==
    IF p <= Len(s) /\ s[p] \in Digits THEN 1 + DigitRun(s, p + 1) ELSE 0

CharAt(s, p) == IF p >= 1 /\ p <= Len(s) THEN s[p] ELSE "end"

\* \d{1,3} at p followed by the character sep, which is no digit: the
\* position after sep, or 0 when there is no match.  The digits before a
\* separator are all of the run, so the run must be 1 to 3 long.
OctetThen(s, p, sep) ==
    LET r == DigitRun(s, p)
    IN  IF p # 0 /\ r >= 1 /\ r <= 3 /\ CharAt(s, p + r) = sep
        THEN p + r + 1 ELSE 0

\* IP_REGEX matched at position p exactly: the position after the match,
\* or 0.  \d+ is greedy and takes the whole run of digits.
MatchIpPortAt(s, p) ==
    LET q == OctetThen(s, OctetThen(s, OctetThen(s, OctetThen(s, p, "."),
                                                 "."), "."), ":")
    IN  IF q # 0 /\ DigitRun(s, q) >= 1 THEN q + DigitRun(s, q) ELSE 0

\* re.search(IP_REGEX, string): the leftmost match, <<>> for None.
extract_address(string) ==
    LET starts == {p \in 1..Len(string) : MatchIpPortAt(string, p) # 0}
    IN  IF starts = {} THEN <<>>
        ELSE LET p == CHOOSE x \in starts : \A y \in starts : x <= y
             IN  SubSeq(string, p, MatchIpPortAt(string, p) - 1)

\* x.group(0).split(":"): the match holds exactly one colon.
SplitColon(m) ==
    LET c == CHOOSE i \in 1..Len(m) : m[i] = ":"
    IN  <<SubSeq(m, 1, c - 1), SubSeq(m, c + 1, Len(m))>>

\* get_ip_port: the entries whose address matches, as [ip, port].
get_ip_port(addresses) ==
    LET matched == SelectSeq(addresses,
                             LAMBDA kv : extract_address(kv[2]) # <<>>)
    IN  [i \in 1..Len(matched) |->
           <<matched[i][1], SplitColon(extract_address(matched[i][2]))>>]

\* The raw addresses the ledger may hold for a module.
GarbageAddress == <<"g", "a", "r", "b", "a", "g", "e">>
GoodAddress ==
    <<"1", "0", ".", "0", ".", "0", ".", "5", ":", "9", "0", "0", "0",
      " ", "e", "x", "t", "r", "a">>
RawAddresses == {GarbageAddress, GoodAddress}

---------------------------------------------------------------------------
\* The ledger's answers to query_map_address and query_map_key.

PeerIds == 0..MaxPeers

\* The validator's own key, and the key registered for module uid.  Module
\* ids are opaque: the validator's key, when registered, is module 0.
KeyOf(uid) == <<"ss58", uid>>
val_ss58 == KeyOf(0)

\* The dict over the uids of ids from uid from on, ascending, with the
\* values of val.
RECURSIVE DictOver(_, _, _)
DictOver(ids, val, from) ==
    IF from > MaxPeers THEN <<>>
    ELSE (IF from \in ids THEN <<<<from, val[from]>>>> ELSE <<>>)
         \o DictOver(ids, val, from + 1)

AddressMaps ==
    UNION {{DictOver(ids, raw, 0) : raw \in [ids -> RawAddresses]} :
             ids \in SUBSET PeerIds}

KeyMaps ==
    {DictOver(ids, [u \in ids |-> KeyOf(u)], 0) : ids \in SUBSET PeerIds}

---------------------------------------------------------------------------
\* _get_miner_prediction (lines 214-259).  A text is the sequence of its
\* characters; a response time is a whole number of seconds.

Texts == {<<"a", "b">>, <<"a">>}
Latencies == {1, 3}

\* What asyncio.run(client.call(...)) does: it raises (a timeout, a
\* transport error) or returns the miner's reply, which may lack the
\* "answer" key or hold an answer that is no dict; an answer dict may lack
\* the "response" key.
RpcReplies ==
    {[kind |-> k, has_response |-> FALSE, response |-> <<>>] :
       k \in {"timeout", "transport_error", "no_answer_key",
              "answer_not_a_dict", "answer_dict"}}
    \cup {[kind |-> "answer_dict", has_response |-> TRUE, response |-> t] :
            t \in Texts}

\* The result of a call that has not ended.
Pending == [state |-> "pending"]

\* None, as returned by the except branch (lines 255-259).  from names the
\* module the call was made to; it is not part of the value.
None(uid) ==
    [state |-> "done", none |-> TRUE, has_response |-> FALSE,
     response |-> <<>>, response_time |-> 0, from |-> uid]

\* Lines 237-259.  A raised call, a reply without "answer" (KeyError, line
\* 249) and an answer that takes no item assignment (TypeError, line 252)
\* all end in the except branch.
get_miner_prediction(reply, response_time, uid) ==
    IF reply.kind = "answer_dict"
    THEN [state |-> "done", none |-> FALSE,
          has_response |-> reply.has_response, response |-> reply.response,
          response_time |-> response_time, from |-> uid]
    ELSE None(uid)

---------------------------------------------------------------------------
\* The similarity measures of _score_miner (lines 261-291).  A similarity
\* is a whole number of SimDen-ths, or NaN.

SimDen == 6 * 10

\* n / d, which must be whole.
Exact(n, d) == CHOOSE q \in {n \div d} : q * d = n

\* The indices of a set, ascending.
RECURSIVE Ascending(_)
Ascending(S) ==
    IF S = {} THEN <<>>
    ELSE LET m == CHOOSE x \in S : \A y \in S : x <= y
         IN  <<m>> \o Ascending(S \ {m})

\* jellyfish.jaro_winkler_similarity: the flags of the matching loop after
\* the characters of s1 before i, as <<s1_flags, s2_flags>>.
RECURSIVE JaroFlags(_, _, _, _, _)
JaroFlags(s1, s2, i, f1, f2) ==
    IF i > Len(s1) THEN <<f1, f2>>
    ELSE LET search_range == Max(0, (Max(Len(s1), Len(s2)) \div 2) - 1)
             low == Max(1, i - search_range)
             hi == Min(i + search_range, Len(s2))
             free == {j \in low..hi : j \notin f2 /\ s2[j] = s1[i]}
         IN  IF free = {} THEN JaroFlags(s1, s2, i + 1, f1, f2)
             ELSE LET j == CHOOSE x \in free : \A y \in free : x <= y
                  IN  JaroFlags(s1, s2, i + 1, f1 \cup {i}, f2 \cup {j})

jaro_winkler_similarity(s1, s2) ==
    IF s1 = <<>> \/ s2 = <<>> THEN 0
    ELSE LET flags == JaroFlags(s1, s2, 1, {}, {})
             m1 == Ascending(flags[1])
             m2 == Ascending(flags[2])
             common == Len(m1)
             trans == Cardinality({k \in 1..common : s1[m1[k]] # s2[m2[k]]})
                        \div 2
             den == 3 * Len(s1) * Len(s2) * common
             num == common * common * Len(s2) + common * common * Len(s1)
                      + (common - trans) * Len(s1) * Len(s2)
             upto == Min(Min(Len(s1), Len(s2)), 4)
             prefix == Cardinality({i \in 1..upto :
                                      \A k \in 1..i : s1[k] = s2[k]})
         IN  IF common = 0 THEN 0
             ELSE IF 10 * num > 7 * den
                  THEN Exact(SimDen * (10 * num + prefix * (den - num)),
                             10 * den)
                  ELSE Exact(SimDen * num, den)

\* CountVectorizer(analyzer='char', ngram_range=(2, 2)): the bigrams of a
\* text, and the number of times bigram g is in it.
Bigrams(t) == [i \in 1..(Len(t) - 1) |-> <<t[i], t[i + 1]>>]
BigramCount(t, g) == Cardinality({i \in 1..(Len(t) - 1) : Bigrams(t)[i] = g})

\* fit_transform raises ValueError("empty vocabulary") when no text holds
\* a bigram, and so on an empty list.
EmptyVocabulary(strings) ==
    \A i \in 1..Len(strings) : Len(strings[i]) < 2

\* 1 - scipy.spatial.distance.dice(u, v) on the count vectors u, v of two
\* texts: 2 * (u . v) / (sum u + sum v), nan when both vectors are zero.
dice_similarity(t1, t2) ==
    LET ntt == SumSeq([i \in 1..Len(Bigrams(t1)) |->
                          BigramCount(t2, Bigrams(t1)[i])])
        total == Len(Bigrams(t1)) + Len(Bigrams(t2))
    IN  IF total = 0 THEN NaN ELSE Exact(2 * ntt * SimDen, total)

\* difflib.SequenceMatcher(None, a, b): the number of matching characters.
\* The longest matching block is taken, the earliest in a, then in b, and
\* the pieces to its left and to its right are matched in turn.
RECURSIVE MatchingChars(_, _)
MatchingChars(a, b) ==
    LET blocks == {x \in (1..Len(a)) \X (1..Len(b)) \X (1..Min(Len(a), Len(b))) :
                     /\ x[1] + x[3] - 1 <= Len(a)
                     /\ x[2] + x[3] - 1 <= Len(b)
                     /\ SubSeq(a, x[1], x[1] + x[3] - 1)
                          = SubSeq(b, x[2], x[2] + x[3] - 1)}
    IN  IF blocks = {} THEN 0
        ELSE LET best == CHOOSE x \in blocks : \A y \in blocks :
                           \/ x[3] > y[3]
                           \/ x[3] = y[3] /\ x[1] < y[1]
                           \/ x[3] = y[3] /\ x[1] = y[1] /\ x[2] <= y[2]
             IN  best[3]
                 + MatchingChars(SubSeq(a, 1, best[1] - 1),
                                 SubSeq(b, 1, best[2] - 1))
                 + MatchingChars(SubSeq(a, best[1] + best[3], Len(a)),
                                 SubSeq(b, best[2] + best[3], Len(b)))

\* SequenceMatcher.ratio(): 2 * matches / (len(a) + len(b)), 1 for two
\* empty texts.
ratcliff_obershelp_ratio(a, b) ==
    IF Len(a) + Len(b) = 0 THEN SimDen
    ELSE Exact(2 * MatchingChars(a, b) * SimDen, Len(a) + Len(b))

\* calculate_jaro_winkler_scores (lines 261-269): for text i the sum of its
\* similarities to every other text.  The factor 0.1 is in AgreementUnits.
calculate_jaro_winkler_scores(strings) ==
    [i \in 1..Len(strings) |->
       FSum([j \in 1..Len(strings) |->
               IF i = j THEN 0
               ELSE jaro_winkler_similarity(strings[i], strings[j])])]

\* calculate_dice_similarity_scores (lines 271-281), past fit_transform.
calculate_dice_similarity_scores(strings) ==
    [i \in 1..Len(strings) |->
       FSum([j \in 1..Len(strings) |->
               IF i = j THEN 0
               ELSE dice_similarity(strings[i], strings[j])])]

\* calculate_ratcliff_obershelp_scores (lines 283-291).
calculate_ratcliff_obershelp_scores(strings) ==
    [i \in 1..Len(strings) |->
       FSum([j \in 1..Len(strings) |->
               IF i = j THEN 0
               ELSE ratcliff_obershelp_ratio(strings[i], strings[j])])]

---------------------------------------------------------------------------
\* _score_miner (lines 294-313).  A score is a whole number of score
\* units, one unit being 1/ScoreDen.

ScoreDen == 9 * 1000

\* sum * 0.1 / 3 * 0.8 of a sum of similarities in SimDen-ths, in units.
AgreementUnits(sum) == Exact(sum * 8 * ScoreDen, 3 * 100 * SimDen)

\* (1 / max(time, 1)) * 0.2, in units.
LatencyUnits(time) == Exact(2 * ScoreDen, 10 * Max(time, 1))

score_miner(miner_res_, miner_uids_, miner_time_) ==
    LET jaro_winkler_scores == calculate_jaro_winkler_scores(miner_res_)
        dice_scores == calculate_dice_similarity_scores(miner_res_)
        ratcliff_obershelp_scores ==
            calculate_ratcliff_obershelp_scores(miner_res_)
    IN  [i \in 1..Len(miner_time_) |->
           LET sum == FAdd(FAdd(jaro_winkler_scores[i], dice_scores[i]),
                           ratcliff_obershelp_scores[i])
           IN  <<miner_uids_[i],
                 IF IsNaN(sum) THEN NaN
                 ELSE AgreementUnits(sum) + LatencyUnits(miner_time_[i])>>]

---------------------------------------------------------------------------
\* The locals of validate_step and set_weights before a round has run.

FreshLocals ==
    /\ modules_adresses = <<>>
    /\ modules_keys = <<>>
    /\ modules_info = <<>>
    /\ miner_prompt = "unset"
    /\ next_call = 1
    /\ running = {}
    /\ futures = <<>>
    /\ completed = <<>>
    /\ miner_answers = <<>>
    /\ miner_res = <<>>
    /\ miner_time = <<>>
    /\ miner_uids = <<>>
    /\ cut_scores = <<>>
    /\ weighted_scores = <<>>
    /\ votes = <<>>

\* The locals are dropped when validate_step returns.
DropLocals ==
    /\ modules_adresses' = <<>>
    /\ modules_keys' = <<>>
    /\ modules_info' = <<>>
    /\ miner_prompt' = "unset"
    /\ next_call' = 1
    /\ running' = {}
    /\ futures' = <<>>
    /\ completed' = <<>>
    /\ miner_answers' = <<>>
    /\ miner_res' = <<>>
    /\ miner_time' = <<>>
    /\ miner_uids' = <<>>
    /\ cut_scores' = <<>>
    /\ weighted_scores' = <<>>
    /\ votes' = <<>>

---------------------------------------------------------------------------
\* validate_step, lines 343-364.

\* No registration check at all.
registration_unchecked(keys) == TRUE

\* val_ss58 not in modules_keys.values(), line 347.
IsRegistered(keys) == val_ss58 \in Range(Values(keys))

\* The join of lines 350-357 without "if not module_addr: continue": every
\* module with a key and a raw address, matched or not.
modules_info_unfiltered(addresses, keys) ==
    LET with_addr == SelectSeq(keys, LAMBDA kv : kv[1] \in KeySet(addresses))
    IN  [i \in 1..Len(with_addr) |->
           <<with_addr[i][1],
             <<extract_address(addresses[Lookup(addresses,
                                                with_addr[i][1])][2]),
               with_addr[i][2]>>>>]

\* Lines 350-357: the modules with a key and a resolved address.
modules_info_of(addresses, keys) ==
    LET filtered == get_ip_port(addresses)
        with_addr == SelectSeq(keys, LAMBDA kv : kv[1] \in KeySet(filtered))
    IN  [i \in 1..Len(with_addr) |->
           <<with_addr[i][1],
             <<filtered[Lookup(filtered, with_addr[i][1])][2],
               with_addr[i][2]>>>>]

\* Lines 344-357: both ledger queries answer.
Resolve ==
    /\ pc = "resolve"
    /\ \E addresses \in AddressMaps, keys \in KeyMaps :
         /\ modules_adresses' = addresses
         /\ modules_keys' = keys
         /\ IF IsRegistered(keys)
            THEN /\ modules_info' = modules_info_of(addresses, keys)
                 /\ pc' = "prompt"
                 /\ exc' = exc
            ELSE /\ modules_info' = modules_info
                 /\ pc' = "raised"
                 /\ exc' = "RuntimeError"
    /\ UNCHANGED <<loopVars, max_allowed_weights, miner_prompt, next_call,
                   running, futures, completed, miner_answers, collectVars,
                   score_dict, weightVars>>

\* Lines 344-345: a ledger query fails.
ResolveFails ==
    /\ pc = "resolve"
    /\ pc' = "raised"
    /\ exc' = "LedgerError"
    /\ UNCHANGED <<loopVars, ledgerVars, pollVars, collectVars,
                   max_allowed_weights, score_dict, weightVars>>

\* Lines 361-367: get_miner_prompt returns a task text (its value plays no
\* part in what follows) and executor.map submits the calls.
GetMinerPrompt ==
    /\ pc = "prompt"
    /\ miner_prompt' = "fetched"
    /\ futures' = [i \in 1..Len(modules_info) |-> Pending]
    /\ pc' = "poll"
    /\ UNCHANGED <<loopVars, modules_adresses, modules_keys,
                   max_allowed_weights, modules_info,
                   next_call, running, completed, miner_answers, collectVars,
                   exc, score_dict, weightVars>>

\* Line 361: the task source fails.
GetMinerPromptFails ==
    /\ pc = "prompt"
    /\ pc' = "raised"
    /\ exc' = "TaskSourceError"
    /\ UNCHANGED <<loopVars, ledgerVars, pollVars, collectVars,
                   max_allowed_weights, score_dict, weightVars>>

---------------------------------------------------------------------------
\* The thread pool of lines 366-368.  executor.map submits one work item
\* per module, in the order of modules_info; a free worker takes the oldest
\* queued item; the result of item i is kept in future i.

\* ThreadPoolExecutor(max_workers=8), line 366.
max_workers == 8

\* A pool with no idle worker at all times.
pool_unbounded(in_flight) == TRUE

\* The pool runs a queued item only on a worker that runs no other, and
\* it has max_workers workers.
idle_worker(in_flight) == Cardinality(in_flight) < max_workers

\* A worker starts the oldest queued call (_get_miner_prediction, 229-236).
StartCall ==
    /\ pc = "poll"
    /\ next_call <= Len(modules_info)
    /\ idle_worker(running)
    /\ running' = running \cup {next_call}
    /\ next_call' = next_call + 1
    /\ UNCHANGED <<loopVars, ledgerVars, max_allowed_weights, modules_info,
                   miner_prompt, futures, completed, miner_answers,
                   collectVars, pc, exc, score_dict, weightVars>>

\* A call in flight ends (lines 237-259) with what the miner replied, one
\* of replies, and the time it took.
FinishCallWith(replies) ==
    /\ pc = "poll"
    /\ \E i \in running, reply \in replies, response_time \in Latencies :
         /\ futures' = [futures EXCEPT ![i] =
                get_miner_prediction(reply, response_time, modules_info[i][1])]
         /\ running' = running \ {i}
         /\ completed' = Append(completed, i)
    /\ UNCHANGED <<loopVars, ledgerVars, max_allowed_weights, modules_info,
                   miner_prompt, next_call, miner_answers, collectVars,
                   pc, exc, score_dict, weightVars>>

FinishCall == FinishCallWith(RpcReplies)

\* The results in the order the calls ended, as as_completed gives them.
map_as_completed(futs, done_order) ==
    [i \in 1..Len(futs) |-> futs[done_order[i]]]

\* [*it] of line 368: the results in the order the calls were submitted.
map_results(futs, done_order) == futs

\* Line 368 and the end of the with block: every call has ended.
Gather ==
    /\ pc = "poll"
    /\ next_call > Len(modules_info)
    /\ running = {}
    /\ miner_answers' = map_results(futures, completed)
    /\ pc' = "collect"
    /\ UNCHANGED <<loopVars, ledgerVars, max_allowed_weights, modules_info,
                   miner_prompt, next_call, running, futures, completed,
                   collectVars, exc, score_dict, weightVars>>

---------------------------------------------------------------------------
\* validate_step, lines 370-389.

\* zip(modules_info.keys(), miner_answers), line 371.
zip_uids(info, answers) ==
    [i \in 1..Min(Len(info), Len(answers)) |-> <<info[i][1], answers[i]>>]

\* The absent answers dropped before the uids are zipped on.
answered_before_zip(pairs) ==
    LET present == SelectSeq([i \in 1..Len(pairs) |-> pairs[i][2]],
                             LAMBDA a : ~a.none)
    IN  [i \in 1..Len(present) |-> <<pairs[i][1], present[i]>>]

\* "if not miner_answer: continue", lines 373-375.
answered(pairs) == SelectSeq(pairs, LAMBDA p : ~p[2].none)

\* miner_response['response'] of line 377 raises KeyError.
LacksResponse(pairs) == \E i \in 1..Len(pairs) : ~pairs[i][2].has_response

\* Lines 370-379.
Collect ==
    /\ pc = "collect"
    /\ LET kept == answered(zip_uids(modules_info, miner_answers))
       IN  IF LacksResponse(kept)
           THEN /\ pc' = "raised"
                /\ exc' = "KeyError"
                /\ UNCHANGED collectVars
           ELSE /\ miner_res' = [i \in 1..Len(kept) |-> kept[i][2].response]
                /\ miner_time' =
                       [i \in 1..Len(kept) |-> kept[i][2].response_time]
                /\ miner_uids' = [i \in 1..Len(kept) |-> kept[i][1]]
                /\ pc' = "score"
                /\ exc' = exc
    /\ UNCHANGED <<loopVars, ledgerVars, pollVars, max_allowed_weights,
                   score_dict, weightVars>>

\* Lines 381-385.
Score ==
    /\ pc = "score"
    /\ IF EmptyVocabulary(miner_res)
       THEN /\ pc' = "raised"
            /\ exc' = "ValueError"
            /\ score_dict' = score_dict
       ELSE /\ score_dict' = score_miner(miner_res, miner_uids, miner_time)
            /\ pc' = IF score_dict' = <<>> THEN "done" ELSE "set_weights"
            /\ exc' = exc
    /\ UNCHANGED <<loopVars, ledgerVars, pollVars, collectVars,
                   max_allowed_weights, weightVars>>

---------------------------------------------------------------------------
\* validation_loop, lines 391-407.

\* settings.iteration_interval, and the longest a round takes.
IterationInterval == 2
MaxElapsed == 3

\* Lines 400-401: a round starts with fresh locals.
LoopStart ==
    /\ loop_pc = "top"
    /\ loop_pc' = "round"
    /\ pc' = "resolve"
    /\ score_dict' = <<>>
    /\ UNCHANGED <<elapsed, sleep_time, exc, max_allowed_weights, ledgerVars,
                   pollVars, collectVars, weightVars>>

\* Line 403: validate_step returned after elapsed seconds; its locals are
\* gone.
RoundReturns ==
    /\ loop_pc = "round"
    /\ pc = "done"
    /\ \E d \in 0..MaxElapsed : elapsed' = d
    /\ loop_pc' = "measured"
    /\ pc' = "idle"
    /\ exc' = "none"
    /\ score_dict' = <<>>
    /\ DropLocals
    /\ UNCHANGED <<sleep_time, max_allowed_weights>>

\* time.sleep(iteration_interval - elapsed) without the test of line 404.
SleepUnguarded ==
    /\ loop_pc = "measured"
    /\ sleep_time' = IterationInterval - elapsed
    /\ loop_pc' = "sleep"
    /\ UNCHANGED <<elapsed, pc, exc, max_allowed_weights, ledgerVars,
                   pollVars, collectVars, score_dict, weightVars>>

\* Lines 404-407: the round was shorter than the interval.
Sleep ==
    /\ loop_pc = "measured"
    /\ elapsed < IterationInterval
    /\ sleep_time' = IterationInterval - elapsed
    /\ loop_pc' = "sleep"
    /\ UNCHANGED <<elapsed, pc, exc, max_allowed_weights, ledgerVars,
                   pollVars, collectVars, score_dict, weightVars>>

\* Line 404: the round took the interval or longer; back to line 399.
NoSleep ==
    /\ loop_pc = "measured"
    /\ ~(elapsed < IterationInterval)
    /\ loop_pc' = "top"
    /\ elapsed' = 0
    /\ UNCHANGED <<sleep_time, pc, exc, max_allowed_weights, ledgerVars,
                   pollVars, collectVars, score_dict, weightVars>>

\* Line 401: validate_step raised; nothing in validation_loop catches it.
RoundRaises ==
    /\ loop_pc = "round"
    /\ pc = "raised"
    /\ loop_pc' = "crashed"
    /\ UNCHANGED <<elapsed, sleep_time, pc, exc, max_allowed_weights,
                   ledgerVars, pollVars, collectVars, score_dict, weightVars>>

\* Line 407: time.sleep returns; back to line 399.
WakeUp ==
    /\ loop_pc = "sleep"
    /\ loop_pc' = "top"
    /\ sleep_time' = 0
    /\ elapsed' = 0
    /\ UNCHANGED <<pc, exc, max_allowed_weights, ledgerVars,
                   pollVars, collectVars, score_dict, weightVars>>

Init ==
    /\ loop_pc = "top"
    /\ pc = "idle"
    /\ max_allowed_weights \in 0..MaxK
    /\ score_dict = <<>>
    /\ elapsed = 0
    /\ sleep_time = 0
    /\ exc = "none"
    /\ FreshLocals

Next ==
    \/ LoopStart
    \/ Resolve
    \/ ResolveFails
    \/ GetMinerPrompt
    \/ GetMinerPromptFails
    \/ StartCall
    \/ FinishCall
    \/ Gather
    \/ Collect
    \/ Score
    \/ SetWeights
    \/ RoundReturns
    \/ Sleep
    \/ NoSleep
    \/ RoundRaises
    \/ WakeUp

Spec == Init /\ [][Next]_vars

---------------------------------------------------------------------------
\* set_weights called directly.

\* A score that outweighs the small ones more than a thousand times: next
\* to it the weight of a small score truncates to 0.
Dominant == WeightBudget + 1

Scores == ((-MaxNeg)..MaxScore) \cup {Dominant, -Dominant, NaN}

\* The score maps of at most MaxEntries entries, any scores.  A uid is an
\* opaque key: the entry inserted i-th has uid i.
ScoreMaps ==
    UNION {{[i \in 1..n |-> <<i, s[i]>>] : s \in [1..n -> Scores]} :
             n \in 0..MaxEntries}

NoRound ==
    /\ elapsed = 0
    /\ sleep_time = 0
    /\ exc = "none"
    /\ FreshLocals

InitWeights ==
    /\ loop_pc = "none"
    /\ pc = "set_weights"
    /\ max_allowed_weights \in 0..MaxEntries
    /\ score_dict \in ScoreMaps
    /\ NoRound

NextWeights == SetWeights

SpecWeights == InitWeights /\ [][NextWeights]_vars

---------------------------------------------------------------------------
\* The polling stage alone, on a roster with more modules than the pool has
\* workers.  What a miner replies plays no part in the scheduling of the
\* calls: every call times out.

\* One module more than the pool has workers.
PoolModules == max_workers + 1

\* n modules with a resolved address, the validator's own among them.
PoolKeys(n) == [i \in 1..n |-> <<i - 1, KeyOf(i - 1)>>]
PoolInfo(n) ==
    [i \in 1..n |->
       <<i - 1, <<SplitColon(extract_address(GoodAddress)), KeyOf(i - 1)>>>>]

TimedOut == {reply \in RpcReplies : reply.kind = "timeout"}

\* The state GetMinerPrompt leaves: the calls are submitted, none started.
InitPool ==
    /\ loop_pc = "round"
    /\ pc = "poll"
    /\ exc = "none"
    /\ elapsed = 0
    /\ sleep_time = 0
    /\ max_allowed_weights = MaxK
    /\ \E n \in 1..PoolModules :
         /\ modules_keys = PoolKeys(n)
         /\ modules_info = PoolInfo(n)
         /\ futures = [i \in 1..n |-> Pending]
    /\ modules_adresses = <<>>
    /\ miner_prompt = "fetched"
    /\ next_call = 1
    /\ running = {}
    /\ completed = <<>>
    /\ miner_answers = <<>>
    /\ miner_res = <<>>
    /\ miner_time = <<>>
    /\ miner_uids = <<>>
    /\ score_dict = <<>>
    /\ cut_scores = <<>>
    /\ weighted_scores = <<>>
    /\ votes = <<>>

FinishCallTimedOut == FinishCallWith(TimedOut)

NextPool ==
    \/ StartCall
    \/ FinishCallTimedOut
    \/ Gather

SpecPool == InitPool /\ [][NextPool]_vars

---------------------------------------------------------------------------
\* The claims.

\* set_weights has returned or raised.
SetWeightsEnded == pc \in {"done", "raised"}

\* C1: for every score map and every ceiling, the weight map set_weights
\* builds, and what it hands to client.vote, has at most
\* max_allowed_weights entries and holds no weight 0.
C1_WeightMapWithinCeiling ==
    SetWeightsEnded =>
        /\ Len(weighted_scores) <= max_allowed_weights
        /\ \A i \in 1..Len(weighted_scores) : weighted_scores[i][2] # 0
        /\ \A v \in 1..Len(votes) :
             /\ Len(votes[v].uids) <= max_allowed_weights
             /\ \A i \in 1..Len(votes[v].weights) : votes[v].weights[i] # 0

\* A score map longer than the ceiling was cut, and a zero weight was
\* filtered out of a weight map that kept an entry.
C1_Witness ==
    /\ pc = "done"
    /\ Len(score_dict) > max_allowed_weights
    /\ Len(cut_scores) = max_allowed_weights
    /\ Len(weighted_scores) < Len(cut_scores)
    /\ weighted_scores # <<>>

KeptTotalPositive ==
    /\ SetWeightsEnded
    /\ cut_scores # <<>>
    /\ SumSeq(Values(cut_scores)) > 0

WeightsWithinBudget ==
    /\ SumSeq(Values(weighted_scores)) <= WeightBudget
    /\ \A i \in 1..Len(weighted_scores) : weighted_scores[i][2] \in Nat
    /\ \A v \in 1..Len(votes) :
         \A i \in 1..Len(votes[v].weights) : votes[v].weights[i] \in Nat

\* C2 as stated: for every non-empty kept score set whose total is
\* positive, negative scores among them or not, the weights sum to at most
\* 1000 and every weight submitted is a non-negative integer.
C2_AnyScores == KeptTotalPositive => WeightsWithinBudget

\* C2 as amended: for every non-empty kept score set with no negative score
\* and a positive total, the weights sum to at most 1000 and every weight
\* submitted is a non-negative integer.
C2_NoNegativeScore ==
    (KeptTotalPositive /\ \A i \in 1..Len(cut_scores) : cut_scores[i][2] >= 0)
        => (votes # <<>> /\ WeightsWithinBudget)

\* Two kept scores, none negative, whose weights lose a unit to truncation.
C2_Witness ==
    /\ pc = "done"
    /\ Len(cut_scores) = 2
    /\ \A i \in 1..Len(cut_scores) : cut_scores[i][2] > 0
    /\ SumSeq(Values(weighted_scores)) = WeightBudget - 1
    /\ votes # <<>>

\* C3: when the sum of the kept scores is zero, set_weights yields an empty
\* weight map and raises no division error.
C3_ZeroTotalGivesEmptyMap ==
    (SetWeightsEnded /\ SumSeq(Values(cut_scores)) = 0)
        => (weighted_scores = <<>> /\ exc # "ZeroDivisionError")

\* C4: client.vote is never invoked with an empty list of uids and weights.
C4_NoEmptyVote == \A v \in 1..Len(votes) : votes[v].uids # <<>>

\* C5: a reply that lacks the "response" field gives an absent result for
\* that peer, and the round is not aborted by an exception over it.
C5_MalformedReplyContained ==
    /\ \A i \in 1..Len(futures) :
         (futures[i] # Pending /\ ~futures[i].has_response) => futures[i].none
    /\ ~(pc = "raised" /\ exc = "KeyError")

\* C6: whatever the order the calls ended in, the poll results are 1:1 and
\* in order with modules_info, and every answer and response time handed
\* to the scorer is paired with the uid of the module that gave it.
C6_ResultsPairedWithPeers ==
    /\ pc \in {"collect", "score", "set_weights", "done"} =>
         /\ Len(miner_answers) = Len(modules_info)
         /\ \A i \in 1..Len(miner_answers) :
              miner_answers[i].from = modules_info[i][1]
    /\ \A j \in 1..Len(miner_uids) :
         \E i \in 1..Len(futures) :
           /\ modules_info[i][1] = miner_uids[j]
           /\ ~futures[i].none
           /\ futures[i].response = miner_res[j]
           /\ futures[i].response_time = miner_time[j]

\* Two miners that answered differently reached the scorer although the
\* later call ended first.
C6_Witness ==
    /\ pc = "set_weights"
    /\ Len(miner_uids) >= 2
    /\ miner_res[1] # miner_res[2]
    /\ completed[1] > completed[2]

\* The uids of the modules whose call gave a result that is not absent.
NonAbsent ==
    {modules_info[i][1] : i \in {k \in 1..Len(futures) :
                                   futures[k] # Pending /\ ~futures[k].none}}

\* C7: the uids of the scorer's input, of the score map, of the weight map
\* and of the vote are uids of modules whose result was not absent in this
\* round.
C7_AbsentPeerNeverReferenced ==
    /\ Range(miner_uids) \subseteq NonAbsent
    /\ KeySet(score_dict) \subseteq NonAbsent
    /\ KeySet(weighted_scores) \subseteq NonAbsent
    /\ \A v \in 1..Len(votes) : Range(votes[v].uids) \subseteq NonAbsent

\* Three modules were polled, one gave no result, the other two are voted.
C7_Witness ==
    /\ pc = "done"
    /\ Len(futures) = 3
    /\ \E i \in 1..3 : futures[i].none
    /\ Len(votes) = 1
    /\ Len(votes[1].uids) = 2

\* C8: in a round whose roster does not hold the validator's key the round
\* has raised, and no task was fetched, no call started and no vote made.
C8_UnregisteredAbortsBeforePolling ==
    (pc \notin {"idle", "resolve"}
       /\ val_ss58 \notin Range(Values(modules_keys)))
        => /\ pc = "raised"
           /\ \/ exc = "RuntimeError"
              \/ exc = "LedgerError" /\ modules_keys = <<>>
           /\ miner_prompt = "unset"
           /\ next_call = 1
           /\ running = {}
           /\ completed = <<>>
           /\ votes = <<>>

\* The roster held modules with a key and a resolved address, but not the
\* validator's key.
C8_Witness ==
    /\ pc = "raised"
    /\ exc = "RuntimeError"
    /\ modules_info_of(modules_adresses, modules_keys) # <<>>

\* C9: validation_loop never ends on a round's failure.
C9_LoopSurvivesFailure == loop_pc # "crashed"

\* C10: when no module gave an answer, scoring raises nothing, nothing is
\* submitted and the round ends.
C10_NoAnswersIsNoOp ==
    [][(pc = "score" /\ miner_res = <<>>)
         => (pc' = "done" /\ exc' = "none" /\ votes' = <<>>)]_vars

\* x > y and x == y of floats: false when either is nan.
FGreater(x, y) == FLess(y, x)
FEqual(x, y) == ~IsNaN(x) /\ ~IsNaN(y) /\ x = y

\* C11: the cut retains exactly min(n, K) entries of the score map, no
\* dropped peer has a strictly higher score than a retained one, and of two
\* peers with equal scores the one earlier in the iteration order is the
\* one retained.
C11_KeepsHighestStable ==
    SetWeightsEnded =>
        /\ Len(cut_scores) = Min(Len(score_dict), max_allowed_weights)
        /\ Range(cut_scores) \subseteq Range(score_dict)
        /\ \A i, j \in 1..Len(score_dict) :
             (/\ score_dict[i][1] \notin KeySet(cut_scores)
              /\ score_dict[j][1] \in KeySet(cut_scores))
                => /\ ~FGreater(score_dict[i][2], score_dict[j][2])
                   /\ FEqual(score_dict[i][2], score_dict[j][2]) => j < i

\* The calls that have been started: those in flight and those that ended.
Started == running \cup Range(completed)

\* C12: at most 8 calls are in flight at any moment, no module is called
\* twice, and when the polling stage is over every module of modules_info
\* has been called exactly once.
C12_PoolBoundedEachCalledOnce ==
    /\ Cardinality(running) <= 8
    /\ running \cap Range(completed) = {}
    /\ Cardinality(Range(completed)) = Len(completed)
    /\ Started = 1..(next_call - 1)
    /\ pc # "poll" =>
         /\ running = {}
         /\ Range(completed) = 1..Len(modules_info)

\* Eight calls are in flight and a ninth waits for a worker.
C12_Witness ==
    /\ pc = "poll"
    /\ Cardinality(running) = 8
    /\ next_call <= Len(modules_info)

\* The score of uid in the score map d.
ScoreOf(d, uid) == d[Lookup(d, uid)][2]

\* Every uid of the weight map, and of the vote, is in the input score map
\* with a strictly positive score.
WeightedHadPositiveScore ==
    /\ \A i \in 1..Len(weighted_scores) :
         /\ weighted_scores[i][1] \in KeySet(score_dict)
         /\ FGreater(ScoreOf(score_dict, weighted_scores[i][1]), 0)
    /\ \A v \in 1..Len(votes) : \A i \in 1..Len(votes[v].uids) :
         /\ votes[v].uids[i] \in KeySet(score_dict)
         /\ FGreater(ScoreOf(score_dict, votes[v].uids[i]), 0)

\* C13 as stated: for all score maps, those with zero or negative scores
\* included, every uid in the weight map had a strictly positive score.
C13_AnyScoreMap == SetWeightsEnded => WeightedHadPositiveScore

\* C13 as amended: for all score maps that hold no negative score, those
\* with zero scores included, every uid in the weight map had a strictly
\* positive score.
C13_NoNegativeScoreMap ==
    (SetWeightsEnded
       /\ \A i \in 1..Len(score_dict) : ~FLess(score_dict[i][2], 0))
        => WeightedHadPositiveScore

\* A kept score of zero was filtered out of a weight map that kept a peer.
C13_Witness ==
    /\ pc = "done"
    /\ \A i \in 1..Len(score_dict) : ~FLess(score_dict[i][2], 0)
    /\ \E i \in 1..Len(cut_scores) :
         cut_scores[i][2] = 0 /\ cut_scores[i][1] \notin KeySet(weighted_scores)
    /\ weighted_scores # <<>>
    /\ votes # <<>>

\* set_weights built a weight map: line 80 did not raise.
WeightMapBuilt == SetWeightsEnded /\ votes # <<>>

\* Re-running the normalization, with the same ceiling, on the weight map
\* as the score map raises nothing and keeps exactly the same uids, and
\* gives exactly the same weights when they sum to 1000.
RerunKeepsWeightMap ==
    /\ ~DivisionByZero(
           cut_to_max_allowed_weights(weighted_scores, max_allowed_weights))
    /\ KeySet(reweighted(weighted_scores, max_allowed_weights))
         = KeySet(weighted_scores)
    /\ SumSeq(Values(weighted_scores)) = 1000 =>
         Range(reweighted(weighted_scores, max_allowed_weights))
           = Range(weighted_scores)

TwoEqualSurvivorsScored ==
    /\ pc \in {"set_weights", "done", "raised"}
    /\ Len(miner_res) = 2
    /\ miner_res[1] = miner_res[2]
    /\ miner_time[1] = miner_time[2]

\* C15: for two surviving peers with the same answer text and the same
\* latency _score_miner yields two equal scores, each strictly greater
\* than 0.
C15_EqualSurvivorsScoreEqual ==
    TwoEqualSurvivorsScored =>
        /\ Len(score_dict) = 2
        /\ FEqual(score_dict[1][2], score_dict[2][2])
        /\ FGreater(score_dict[1][2], 0)

\* C16: validation_loop runs its rounds one after another: after a round
\* that took elapsed seconds it sleeps exactly IterationInterval - elapsed
\* (more than 0) when elapsed < IterationInterval, and goes back to the
\* top without sleeping when elapsed >= IterationInterval; it sleeps at no
\* other point; a round starts only from the top of the loop with no round
\* in progress, and validate_step moves only while the loop waits for it.
C16_SequentialRoundsExactSleep ==
    [][/\ (loop_pc = "measured" /\ elapsed < IterationInterval)
            => /\ loop_pc' = "sleep"
               /\ sleep_time' = IterationInterval - elapsed
               /\ sleep_time' > 0
       /\ (loop_pc = "measured" /\ elapsed >= IterationInterval)
            => /\ loop_pc' = "top"
               /\ sleep_time' = 0
       /\ (loop_pc' = "sleep" /\ loop_pc # "sleep")
            => (loop_pc = "measured" /\ elapsed < IterationInterval)
       /\ sleep_time' >= 0
       /\ (loop_pc' = "round" /\ loop_pc # "round")
            => (loop_pc = "top" /\ pc = "idle" /\ pc' = "resolve")
       /\ pc' # pc => (loop_pc = "round" \/ loop_pc' = "round")
      ]_vars

\* The loop sleeps the rest of the interval after a round of 1 second.
C16_Witness ==
    /\ loop_pc = "sleep"
    /\ elapsed = 1
    /\ sleep_time = IterationInterval - 1

\* The raw address string holds a match of IP_REGEX somewhere.
HasHostPort(string) == \E p \in 1..Len(string) : MatchIpPortAt(string, p) # 0

\* The uids of the key map whose raw address holds a host:port pattern.
Resolvable ==
    {modules_keys[k][1] : k \in {i \in 1..Len(modules_keys) :
        \E a \in 1..Len(modules_adresses) :
            /\ modules_adresses[a][1] = modules_keys[i][1]
            /\ HasHostPort(modules_adresses[a][2])}}

\* The uids of the modules whose call a worker has started.
Polled == {modules_info[i][1] : i \in 1..(next_call - 1)}

\* C17: in a round of a registered validator the modules polled are
\* exactly the uids of the key map whose raw address holds a host:port
\* pattern; a uid whose address holds none, or that has no address, raises
\* nothing and is never polled, scored, weighted or voted.
C17_PolledAreResolvablePeers ==
    /\ pc \in {"prompt", "poll", "collect", "score", "set_weights", "done"}
         => KeySet(modules_info) = Resolvable
    /\ pc = "prompt" => exc = "none"
    /\ Polled \subseteq Resolvable
    /\ pc \in {"collect", "score", "set_weights", "done"}
         => (Polled = Resolvable /\ Len(futures) = Cardinality(Resolvable))
    /\ Range(miner_uids) \subseteq Resolvable
    /\ KeySet(score_dict) \subseteq Resolvable
    /\ KeySet(weighted_scores) \subseteq Resolvable
    /\ \A v \in 1..Len(votes) : Range(votes[v].uids) \subseteq Resolvable

\* A round voted with three registered modules of which one had an
\* address without a host:port pattern and one had no address.
C17_Witness ==
    /\ pc = "done"
    /\ Len(votes) = 1
    /\ Len(modules_keys) = 3
    /\ \E a \in 1..Len(modules_adresses) :
         /\ modules_adresses[a][1] \in KeySet(modules_keys)
         /\ modules_adresses[a][2] = GarbageAddress
    /\ \E k \in 1..Len(modules_keys) :
         modules_keys[k][1] \notin KeySet(modules_adresses)
    /\ Cardinality(Polled) = 1

\* C18: every score _score_miner produces in a round is strictly greater
\* than 0, so when validate_step is about to call set_weights the score
\* map is not empty and, with a ceiling of 1 or more, the total of the
\* kept scores is strictly greater than 0; set_weights never divides by a
\* zero total in a round.
C18_RoundScoresPositive ==
    /\ \A i \in 1..Len(score_dict) : FGreater(score_dict[i][2], 0)
    /\ (pc = "set_weights" /\ max_allowed_weights >= 1)
         => /\ score_dict # <<>>
            /\ FGreater(FSum(Values(cut_to_max_allowed_weights(
                                      score_dict, max_allowed_weights))), 0)
    /\ exc # "ZeroDivisionError"

\* C19: when the score map is not empty, all its scores are strictly
\* greater than 0 and 1 <= max_allowed_weights <= 1000, the highest kept
\* score gets a weight of at least 1, the weight map handed to client.vote
\* is not empty, and its weights sum to more than 1000 minus the number of
\* kept entries.
C19_PositiveScoresFillBudget ==
    (SetWeightsEnded
       /\ score_dict # <<>>
       /\ \A i \in 1..Len(score_dict) : FGreater(score_dict[i][2], 0)
       /\ 1 <= max_allowed_weights
       /\ max_allowed_weights <= 1000)
        => /\ cut_scores[1][1] \in KeySet(weighted_scores)
           /\ ScoreOf(weighted_scores, cut_scores[1][1]) >= 1
           /\ weighted_scores # <<>>
           /\ votes # <<>>
           /\ votes[Len(votes)].uids # <<>>
           /\ SumSeq(Values(weighted_scores)) > 1000 - Len(cut_scores)

\* The weight set_weights computed for uid: 0 when it was filtered out.
WeightOf(uid) ==
    IF uid \in KeySet(weighted_scores) THEN ScoreOf(weighted_scores, uid)
    ELSE 0

\* Of two kept entries with strictly positive scores the one with the
\* score not lower has the weight not lower, and is filtered out as
\* zero-weight only if the other is.
RankingPreserved ==
    \A i, j \in 1..Len(cut_scores) :
        (/\ FGreater(cut_scores[i][2], 0)
         /\ FGreater(cut_scores[j][2], 0)
         /\ cut_scores[i][2] >= cut_scores[j][2])
            => /\ WeightOf(cut_scores[i][1]) >= WeightOf(cut_scores[j][1])
               /\ cut_scores[i][1] \notin KeySet(weighted_scores)
                    => cut_scores[j][1] \notin KeySet(weighted_scores)

\* C20 as stated: in every weight map set_weights has built, whatever the
\* other kept scores, two kept entries with strictly positive scores keep
\* their ranking.
C20_AnyKeptScores == WeightMapBuilt => RankingPreserved

\* C20 as amended: in every weight map set_weights has built from kept
\* scores whose total is strictly positive, two kept entries with strictly
\* positive scores keep their ranking.
C20_PositiveKeptTotal ==
    (WeightMapBuilt /\ SumSeq(Values(cut_scores)) > 0) => RankingPreserved

\* The lower of two kept positive scores was filtered out as zero-weight
\* and the higher got a weight.
C20_Witness ==
    /\ pc = "done"
    /\ SumSeq(Values(cut_scores)) > 0
    /\ \E i, j \in 1..Len(cut_scores) :
         /\ cut_scores[i][2] > cut_scores[j][2]
         /\ cut_scores[j][2] > 0
         /\ WeightOf(cut_scores[i][1]) > 0
         /\ cut_scores[j][1] \notin KeySet(weighted_scores)

====
